---- MODULE Spec2Model ----
(***************************************************************************)
(* The orchestrator of ORB_SLAM2 (src/src/System.cc): the mode/reset       *)
(* request flags, the stop-serialize-release persistence protocol, the     *)
(* shutdown ordering and the camera-trajectory reconstruction.             *)
(*                                                                         *)
(* Caller threads run the public methods of System one statement group at  *)
(* a time (pc).  LocalMapping, LoopClosing, Viewer and Tracking are not in  *)
(* src/: they are modelled from the interface the orchestrator consumes.    *)
(***************************************************************************)
EXTENDS Integers, Sequences, FiniteSets, TLC

(* ------------------------------ bounds --------------------------------- *)

\* Caller threads that may be inside the orchestrator at the same time.
NumThreads == 2

\* Frame::nNextId and Tracking::frameId are not advanced beyond this value.
MaxFrameId == 1

Threads == 1..NumThreads

NoThread == 0

(* ------------------------------ strings -------------------------------- *)

\* std::string values, as sequences of characters.
BinSuffix == <<".", "b", "i", "n">>

PathA == <<"a">> \o BinSuffix

PathTxt == <<"a", ".", "t", "x", "t">>

PathShort == <<"m">>

EmptyString == <<>>

\* The map paths a caller passes.
Paths == {PathA, PathTxt, PathShort, EmptyString}

\* The files the model's file system can hold.
FilePaths == {PathA, PathTxt}

\* std::string::npos
npos == -1

\* std::string::find(suffix, pos): the first index >= pos at which suffix
\* occurs, npos when there is none or pos is past the end.
StrFind(str, suffix, pos) ==
    IF pos > Len(str) THEN npos
    ELSE LET hits == {i \in pos..(Len(str) - Len(suffix)) :
                         SubSeq(str, i + 1, i + Len(suffix)) = suffix}
         IN  IF hits = {} THEN npos
             ELSE CHOOSE i \in hits : \A j \in hits : i <= j

\* str.size() - suffix.size() in size_t: a negative difference wraps to a
\* value near 2^64, which is past the end of every string.
SizeDiff(str, suffix) ==
    IF Len(str) >= Len(suffix) THEN Len(str) - Len(suffix)
    ELSE Len(str) + 1 + (Len(suffix) - Len(str))

\* A test that takes every string to end in every suffix.
has_suffix_always(str, suffix) == TRUE

has_suffix(str, suffix) == StrFind(str, suffix, SizeDiff(str, suffix)) # npos

(* ------------------------------ values --------------------------------- *)

\* System::eSensor
Sensors == {"MONOCULAR", "STEREO", "RGBD"}

\* Tracking::eTrackingState
SYSTEM_NOT_READY == -1

NO_IMAGES_YET == 0

NOT_INITIALIZED == 1

OK == 2

LOST == 3

TrackingStates == {SYSTEM_NOT_READY, NO_IMAGES_YET, NOT_INITIALIZED, OK, LOST}

\* A Map is the set of its keyframes, each named by the id of the frame it
\* was made from (KeyFrame::mnFrameId); the KeyFrameDatabase is the set of
\* keyframes it indexes.
EmptyMap == {}

\* One serialized object of a map file.
MapObject(m) == [kind |-> "Map", kfs |-> m]

IndexObject(db) == [kind |-> "KeyFrameDatabase", kfs |-> db]

\* A file is the sequence of the objects written to it so far; NoFile is a
\* path at which there is nothing to open for reading.
File(objects) == [exists |-> TRUE, objects |-> objects]

NoFile == [exists |-> FALSE, objects |-> <<>>]

NoStream == <<"closed">>

\* A stopped/finished worker as the orchestrator sees it.
WorkerIdle == [stopRequested |-> FALSE, stopped |-> FALSE,
               finishRequested |-> FALSE, finished |-> FALSE]

\* The request flags of the mode/reset state machine.
Flags == {"Activate", "Deactivate", "Reset", "ResetAndLoad"}

Max(S) == CHOOSE x \in S : \A y \in S : y <= x

(* ------------------------------- poses --------------------------------- *)

\* Rigid transforms are modelled by the permutations of three points: a
\* group whose product does not commute and whose inverse is not the
\* identity map.
Identity == <<1, 2, 3>>

Swap == <<2, 1, 3>>

Cycle == <<2, 3, 1>>

\* The matrix product p * q.
Mul(p, q) == [i \in 1..3 |-> p[q[i]]]

\* The inverse of a rigid transform: rotation transposed, translation
\* rotated back and negated.
Inverse(p) == [i \in 1..3 |-> CHOOSE j \in 1..3 : p[j] = i]

\* The transforms the inputs are drawn from.
PoseInputs == {Swap, Cycle}

\* The keyframes of a trajectory, by mnId; the first is the root of the
\* spanning tree.
MaxKeyFrames == 3

KeyFrameIds == 0..(MaxKeyFrames - 1)

\* The parent of the root: a null pointer.
NullKeyFrame == MaxKeyFrames

\* The most frames a trajectory log holds.
MaxFrames == 2

(* ------------------------------ state ---------------------------------- *)

VARIABLES
    exited,                       \* exit(-1) or an uncaught exception ended the process
    mSensor,                      \* System::mSensor
    hasViewer,                    \* mpViewer != NULL
    bReuseMap,                    \* the constructor's bReuseMap
    mbActivateLocalizationMode,
    mbDeactivateLocalizationMode,
    mbReset,
    mbResetAndLoad,
    mMutexMode,                   \* owner of each std::mutex, NoThread when free
    mMutexReset,
    mMutexState,
    mTrackingState,               \* the orchestrator's snapshot
    mapfile,                      \* System::mapfile
    mpMap,
    mpKeyFrameDatabase,
    files,                        \* the file system, FilePaths -> file
    nNextId,                      \* Frame::nNextId
    trk,                          \* the Tracking engine
    lm,                           \* the LocalMapping worker
    viewer,                       \* the Viewer worker
    lc,                           \* the LoopClosing worker
    pc,                           \* where each caller thread is
    stream,                       \* the file each thread's fstream is open on
    startFlags,                   \* the flags pending when the call started, kept until the frame is forwarded
    log,                          \* what the thread's current call has done so far
    started,                      \* the constructor launched the worker threads
    keyframes,                    \* every KeyFrame made so far, by mnId
    mlpReferences,                \* Tracking's lists, one entry per frame
    mlRelativeFramePoses,
    mlbLost,
    format,                       \* which trajectory export runs
    Two,                          \* locals of the trajectory export
    lit,
    pKF,
    Trw,
    written,                      \* the lines the export has written
    ctor,                         \* the constructor's arguments and position
    lastSave,                     \* the Save in progress: its argument
    staticN,                      \* static int n of System::MapChanged
    mnBigChangeIdx,               \* per System, its Map's big-change index
    checked,                      \* per System, the index its last check saw
    returned,                     \* per System, what its last check returned
    trajFile,                     \* the export's ofstream f: unopened, open or closed
    kfIndex                       \* the index i of the keyframe export

trajVars == <<keyframes, mlpReferences, mlRelativeFramePoses, mlbLost, format,
              Two, lit, pKF, Trw, written, trajFile, kfIndex>>

changeVars == <<staticN, mnBigChangeIdx, checked, returned>>

sysVars ==
    <<exited, started, mSensor, hasViewer, bReuseMap, ctor, lastSave, changeVars,
      trajVars>>

\* The system variables a Save leaves alone.
saveFrame ==
    <<exited, started, mSensor, hasViewer, bReuseMap, ctor, trajVars, changeVars>>

flagVars == <<mbActivateLocalizationMode, mbDeactivateLocalizationMode,
              mbReset, mbResetAndLoad>>

mutexVars == <<mMutexMode, mMutexReset, mMutexState>>

mapVars == <<mapfile, mpMap, mpKeyFrameDatabase, files, nNextId>>

workerVars == <<lm, viewer, lc>>

threadVars == <<pc, stream, startFlags, log>>

vars == <<sysVars, flagVars, mutexVars, mTrackingState, mapVars, trk,
          workerVars, threadVars>>

PendingFlags ==
    {f \in Flags :
        \/ f = "Activate" /\ mbActivateLocalizationMode
        \/ f = "Deactivate" /\ mbDeactivateLocalizationMode
        \/ f = "Reset" /\ mbReset
        \/ f = "ResetAndLoad" /\ mbResetAndLoad}

(* ----------------- the workers' interface (not in src/) ---------------- *)

\* LocalMapping::RequestStop, Viewer::RequestStop
RequestStop(w) == [w EXCEPT !.stopRequested = TRUE]

\* LocalMapping::isStopped, Viewer::isStopped
isStopped(w) == w.stopped

\* LocalMapping::Release, Viewer::Release: a finished worker stays as it is.
Release(w) ==
    IF w.finished THEN w
    ELSE [w EXCEPT !.stopped = FALSE, !.stopRequested = FALSE]

\* LocalMapping::RequestFinish, LoopClosing::RequestFinish, Viewer::RequestFinish
RequestFinish(w) == [w EXCEPT !.finishRequested = TRUE]

\* LocalMapping::isFinished, LoopClosing::isFinished, Viewer::isFinished
isFinished(w) == w.finished

\* LoopClosing::isRunningGBA
isRunningGBA == lc.runningGBA

\* Tracking::InformOnlyTracking
InformOnlyTracking(flag) == [trk EXCEPT !.mbOnlyTracking = flag]

\* Tracking::Reset: the frame history is discarded and tracking starts over.
TrackerReset(tr) == [tr EXCEPT !.mState = NO_IMAGES_YET]

\* Tracking::ResetAfterLoaded: tracking restarts against the loaded map.
TrackerResetAfterLoaded(tr) == [tr EXCEPT !.mState = LOST]

\* The LocalMapping thread honours a stop request.
LocalMappingStop ==
    /\ started /\ ~exited
    /\ lm.stopRequested /\ ~lm.stopped /\ ~lm.finished
    /\ lm' = [lm EXCEPT !.stopped = TRUE]
    /\ UNCHANGED <<sysVars, flagVars, mutexVars, mTrackingState, mapVars, trk,
                   viewer, lc, threadVars>>

\* The LocalMapping thread honours a finish request and leaves its loop.
LocalMappingFinish ==
    /\ started /\ ~exited
    /\ lm.finishRequested /\ ~lm.finished
    /\ lm' = [lm EXCEPT !.finished = TRUE, !.stopped = TRUE]
    /\ UNCHANGED <<sysVars, flagVars, mutexVars, mTrackingState, mapVars, trk,
                   viewer, lc, threadVars>>

\* The Viewer thread honours a stop request.
ViewerStop ==
    /\ started /\ ~exited /\ hasViewer
    /\ viewer.stopRequested /\ ~viewer.stopped /\ ~viewer.finished
    /\ viewer' = [viewer EXCEPT !.stopped = TRUE]
    /\ UNCHANGED <<sysVars, flagVars, mutexVars, mTrackingState, mapVars, trk,
                   lm, lc, threadVars>>

\* The Viewer thread honours a finish request.
ViewerFinish ==
    /\ started /\ ~exited /\ hasViewer
    /\ viewer.finishRequested /\ ~viewer.finished
    /\ viewer' = [viewer EXCEPT !.finished = TRUE, !.stopped = TRUE]
    /\ UNCHANGED <<sysVars, flagVars, mutexVars, mTrackingState, mapVars, trk,
                   lm, lc, threadVars>>

\* The LoopClosing thread starts a global bundle adjustment.
LoopClosingStartGBA ==
    /\ started /\ ~exited
    /\ ~lc.finished /\ ~lc.runningGBA
    /\ lc' = [lc EXCEPT !.runningGBA = TRUE]
    /\ UNCHANGED <<sysVars, flagVars, mutexVars, mTrackingState, mapVars, trk,
                   lm, viewer, threadVars>>

\* The global bundle adjustment ends.
LoopClosingEndGBA ==
    /\ started /\ ~exited
    /\ lc.runningGBA
    /\ lc' = [lc EXCEPT !.runningGBA = FALSE]
    /\ UNCHANGED <<sysVars, flagVars, mutexVars, mTrackingState, mapVars, trk,
                   lm, viewer, threadVars>>

\* The LoopClosing thread honours a finish request.
LoopClosingFinish ==
    /\ started /\ ~exited
    /\ lc.finishRequested /\ ~lc.finished
    /\ lc' = [lc EXCEPT !.finished = TRUE]
    /\ UNCHANGED <<sysVars, flagVars, mutexVars, mTrackingState, mapVars, trk,
                   lm, viewer, threadVars>>

(* --------------------------- construction ------------------------------ *)

\* The loop of LoadMap and LoadMapDuring over the loaded keyframes: the
\* largest mnFrameId, starting from 0.
MaxLoadedFrameId(kfs) == IF kfs = {} THEN 0 ELSE Max(kfs \cup {0})

\* Frame::nNextId = mnFrameId
NextIdAfterLoad(kfs) == MaxLoadedFrameId(kfs)

\* A file as Save leaves it: the Map, then the KeyFrameDatabase.
SavedFile(m) == File(<<MapObject(m), IndexObject(m)>>)

\* The maps a file may hold before the program starts.
SavedMaps == {{0, 1}}

InitialFiles ==
    {[p \in FilePaths |-> IF p = PathA THEN f ELSE NoFile] :
        f \in {NoFile} \cup {SavedFile(m) : m \in SavedMaps}}

\* System::LoadMap: FALSE when the file cannot be opened.
LoadMapOk(filename, fs) == filename \in FilePaths /\ fs[filename].exists

\* System::System, up to the launch of the workers.
SystemInit ==
    \E sensor \in Sensors, bUseViewer \in BOOLEAN, strMapFile \in Paths,
       fs \in InitialFiles, settingsOk \in BOOLEAN, vocOk \in BOOLEAN,
       garbage \in TrackingStates :
        LET mf == IF has_suffix(strMapFile, BinSuffix) THEN strMapFile
                  ELSE EmptyString
            loaded == mf # EmptyString /\ LoadMapOk(mf, fs)
            fatal == ~settingsOk \/ ~vocOk
        IN  /\ exited = fatal
            /\ started = ~fatal
            /\ mSensor = sensor
            /\ hasViewer = (bUseViewer /\ ~fatal)
            /\ bReuseMap = (loaded /\ ~fatal)
            /\ mbActivateLocalizationMode = FALSE
            /\ mbDeactivateLocalizationMode = FALSE
            /\ mbReset = FALSE
            /\ mbResetAndLoad = FALSE
            /\ mMutexMode = NoThread
            /\ mMutexReset = NoThread
            /\ mMutexState = NoThread
            /\ mTrackingState = garbage
            /\ mapfile = IF fatal THEN EmptyString ELSE mf
            /\ mpMap = IF loaded /\ ~fatal THEN fs[mf].objects[1].kfs ELSE EmptyMap
            /\ mpKeyFrameDatabase =
                   IF loaded /\ ~fatal THEN fs[mf].objects[2].kfs ELSE EmptyMap
            /\ files = fs
            /\ nNextId = IF loaded /\ ~fatal THEN NextIdAfterLoad(fs[mf].objects[1].kfs)
                         ELSE 0
            /\ trk = [mState |-> NO_IMAGES_YET, mbOnlyTracking |-> FALSE,
                      frameId |-> 0]
            /\ lm = WorkerIdle
            /\ viewer = WorkerIdle
            /\ lc = [finishRequested |-> FALSE, finished |-> FALSE,
                     runningGBA |-> FALSE]
            /\ pc = [t \in Threads |-> "idle"]
            /\ stream = [t \in Threads |-> NoStream]
            /\ startFlags = [t \in Threads |-> {}]
            /\ log = [t \in Threads |-> <<>>]

\* A new system has tracked no frame and exports nothing.
NoTrajectory ==
    /\ keyframes = <<>>
    /\ mlpReferences = <<>>
    /\ mlRelativeFramePoses = <<>>
    /\ mlbLost = <<>>
    /\ format = "none"
    /\ Two = Identity
    /\ lit = 1
    /\ pKF = NullKeyFrame
    /\ Trw = Identity
    /\ written = <<>>
    /\ trajFile = "unopened"
    /\ kfIndex = 1

\* ".txt", the suffix of a vocabulary in text form.
TxtSuffix == <<".", "t", "x", "t">>

\* The constructor has returned; its arguments are gone.
CtorDone ==
    [step |-> "done", settingsOk |-> TRUE, strVocFile |-> PathTxt,
     vocParses |-> TRUE, strMapFile |-> EmptyString, bUseViewer |-> FALSE,
     readable |-> TRUE]

\* No Save is in progress.
NoSave == [strMapFile |-> EmptyString, mpMap |-> EmptyMap, fresh |-> FALSE]

\* The System objects of the process; the first is the one whose calls
\* the other actions model.
NumSystems == 2

Systems == 1..NumSystems

\* The largest big-change index a Map reaches.
MaxBigChange == 2

\* No MapChanged call has returned yet.
NoCheck == [value |-> FALSE, advanced |-> FALSE, called |-> FALSE]

\* static int n=0, Maps without a big change, and no check made.
NoChecks ==
    /\ staticN = 0
    /\ mnBigChangeIdx = [s \in Systems |-> 0]
    /\ checked = [s \in Systems |-> 0]
    /\ returned = [s \in Systems |-> NoCheck]

Init ==
    /\ SystemInit /\ NoTrajectory /\ NoChecks
    /\ ctor = CtorDone /\ lastSave = NoSave

(* ------------------------- caller threads ------------------------------ *)

\* Tracking runs on the caller's thread: one thread makes the ingestion
\* calls, every thread makes the command calls.
TrackingThreads == {t \in Threads : t <= 1}

At(t, label) == started /\ ~exited /\ pc[t] = label

Goto(t, label) == pc' = [pc EXCEPT ![t] = label]

Note(t, event) == log' = [log EXCEPT ![t] = Append(@, event)]

\* What a poll of isStopped() found, as the log keeps it.
Observed(w) == IF isStopped(w) THEN "Stopped" ELSE "Running"

\* A call returns: the thread is free for its next call.
Return(t) ==
    /\ pc' = [pc EXCEPT ![t] = "idle"]
    /\ log' = [log EXCEPT ![t] = <<>>]
    /\ startFlags' = [startFlags EXCEPT ![t] = {}]

(* TrackStereo, TrackRGBD, TrackMonocular *)

\* An entry check placed after the mode block: the call of another
\* modality consumes the pending flags and releases local mapping first.
TrackEnter_late(t) ==
    /\ At(t, "idle") /\ t \in TrackingThreads
    /\ nNextId <= MaxFrameId /\ trk.frameId <= MaxFrameId
    /\ \E modality \in Sensors :
          IF mSensor # modality
          THEN /\ exited' = TRUE
               /\ mbActivateLocalizationMode' = FALSE
               /\ mbDeactivateLocalizationMode' = FALSE
               /\ mbReset' = FALSE
               /\ mbResetAndLoad' = FALSE
               /\ UNCHANGED <<started, mSensor, hasViewer, bReuseMap, ctor,
                              lastSave, changeVars, trajVars, pc, startFlags,
                              log>>
          ELSE /\ Goto(t, "tk_mode_lock")
               /\ startFlags' = [startFlags EXCEPT ![t] = PendingFlags]
               /\ log' = [log EXCEPT ![t] = <<>>]
               /\ UNCHANGED <<sysVars, flagVars>>
    /\ UNCHANGED <<mutexVars, mTrackingState, mapVars, trk, workerVars, stream>>

\* The entry check: a call of another modality than mSensor is exit(-1).
TrackEnter(t) ==
    /\ At(t, "idle") /\ t \in TrackingThreads
    /\ nNextId <= MaxFrameId /\ trk.frameId <= MaxFrameId
    /\ \E modality \in Sensors :
          IF mSensor # modality
          THEN /\ exited' = TRUE
               /\ UNCHANGED <<started, mSensor, hasViewer, bReuseMap, ctor,
                              lastSave, changeVars, trajVars, pc, startFlags,
                              log>>
          ELSE /\ Goto(t, "tk_mode_lock")
               /\ startFlags' = [startFlags EXCEPT ![t] = PendingFlags]
               /\ log' = [log EXCEPT ![t] = <<>>]
               /\ UNCHANGED sysVars
    /\ UNCHANGED <<flagVars, mutexVars, mTrackingState, mapVars, trk,
                   workerVars, stream>>

\* unique_lock<mutex> lock(mMutexMode)
TrackLockMode(t) ==
    /\ At(t, "tk_mode_lock")
    /\ mMutexMode = NoThread
    /\ mMutexMode' = t
    /\ Goto(t, "tk_activate")
    /\ UNCHANGED <<sysVars, flagVars, mMutexReset, mMutexState, mTrackingState,
                   mapVars, trk, workerVars, stream, startFlags, log>>

\* if(mbActivateLocalizationMode) mpLocalMapper->RequestStop();
TrackCheckActivate(t) ==
    /\ At(t, "tk_activate")
    /\ IF mbActivateLocalizationMode
       THEN /\ lm' = RequestStop(lm)
            /\ Note(t, "RequestStop")
            /\ Goto(t, "tk_wait_stopped")
       ELSE /\ Goto(t, "tk_deactivate")
            /\ UNCHANGED <<lm, log>>
    /\ UNCHANGED <<sysVars, flagVars, mutexVars, mTrackingState, mapVars, trk,
                   viewer, lc, stream, startFlags>>

TrackWaitStopped_nowait(t) ==
    /\ At(t, "tk_wait_stopped")
    /\ Note(t, Observed(lm))
    /\ Goto(t, "tk_inform")
    /\ UNCHANGED <<sysVars, flagVars, mutexVars, mTrackingState, mapVars, trk,
                   workerVars, stream, startFlags>>

\* while(!mpLocalMapper->isStopped()) sleep: the loop is left by a poll that
\* finds local mapping stopped.
TrackWaitStopped(t) ==
    /\ At(t, "tk_wait_stopped")
    /\ isStopped(lm)
    /\ Note(t, Observed(lm))
    /\ Goto(t, "tk_inform")
    /\ UNCHANGED <<sysVars, flagVars, mutexVars, mTrackingState, mapVars, trk,
                   workerVars, stream, startFlags>>

\* mpTracker->InformOnlyTracking(true); mbActivateLocalizationMode = false;
TrackInformOnly(t) ==
    /\ At(t, "tk_inform")
    /\ trk' = InformOnlyTracking(TRUE)
    /\ mbActivateLocalizationMode' = FALSE
    /\ Note(t, "OnlyTracking")
    /\ Goto(t, "tk_deactivate")
    /\ UNCHANGED <<sysVars, mbDeactivateLocalizationMode, mbReset,
                   mbResetAndLoad, mutexVars, mTrackingState, mapVars,
                   workerVars, stream, startFlags>>

\* if(mbDeactivateLocalizationMode) mpTracker->InformOnlyTracking(false);
\* otherwise the mode block ends and its lock is released.
TrackCheckDeactivate(t) ==
    /\ At(t, "tk_deactivate")
    /\ IF mbDeactivateLocalizationMode
       THEN /\ trk' = InformOnlyTracking(FALSE)
            /\ Note(t, "FullMapping")
            /\ Goto(t, "tk_release")
            /\ UNCHANGED mMutexMode
       ELSE /\ mMutexMode' = NoThread
            /\ Goto(t, "tk_reset_lock")
            /\ UNCHANGED <<trk, log>>
    /\ UNCHANGED <<sysVars, flagVars, mMutexReset, mMutexState, mTrackingState,
                   mapVars, workerVars, stream, startFlags>>

TrackRelease_norelease(t) ==
    /\ At(t, "tk_release")
    /\ mbDeactivateLocalizationMode' = FALSE
    /\ mMutexMode' = NoThread
    /\ Note(t, "Release")
    /\ Goto(t, "tk_reset_lock")
    /\ UNCHANGED <<sysVars, mbActivateLocalizationMode, mbReset, mbResetAndLoad,
                   mMutexReset, mMutexState, mTrackingState, mapVars, trk,
                   workerVars, stream, startFlags>>

\* mpLocalMapper->Release(); mbDeactivateLocalizationMode = false; and the
\* end of the mode block.
TrackRelease(t) ==
    /\ At(t, "tk_release")
    /\ lm' = Release(lm)
    /\ mbDeactivateLocalizationMode' = FALSE
    /\ mMutexMode' = NoThread
    /\ Note(t, "Release")
    /\ Goto(t, "tk_reset_lock")
    /\ UNCHANGED <<sysVars, mbActivateLocalizationMode, mbReset, mbResetAndLoad,
                   mMutexReset, mMutexState, mTrackingState, mapVars, trk,
                   viewer, lc, stream, startFlags>>

\* unique_lock<mutex> lock(mMutexReset), of the reset block
TrackLockReset(t) ==
    /\ At(t, "tk_reset_lock")
    /\ mMutexReset = NoThread
    /\ mMutexReset' = t
    /\ Goto(t, "tk_reset")
    /\ UNCHANGED <<sysVars, flagVars, mMutexMode, mMutexState, mTrackingState,
                   mapVars, trk, workerVars, stream, startFlags, log>>

\* Only TrackMonocular has the block that consumes mbResetAndLoad.
AfterResetBlock == IF mSensor = "MONOCULAR" THEN "tk_load_lock" ELSE "tk_grab"

\* The reset block without its braces: the lock of mMutexReset lives on to
\* the end of the call.
TrackCheckReset_held(t) ==
    /\ At(t, "tk_reset")
    /\ IF mbReset
       THEN /\ trk' = TrackerReset(trk)
            /\ mbReset' = FALSE
            /\ Note(t, "Reset")
       ELSE UNCHANGED <<trk, mbReset, log>>
    /\ Goto(t, "tk_grab")
    /\ UNCHANGED <<sysVars, mbActivateLocalizationMode,
                   mbDeactivateLocalizationMode, mbResetAndLoad, mutexVars,
                   mTrackingState, mapVars, workerVars, stream, startFlags>>

\* if(mbReset) { mpTracker->Reset(); mbReset = false; }
TrackCheckReset(t) ==
    /\ At(t, "tk_reset")
    /\ IF mbReset
       THEN /\ trk' = TrackerReset(trk)
            /\ mbReset' = FALSE
            /\ Note(t, "Reset")
       ELSE UNCHANGED <<trk, mbReset, log>>
    /\ mMutexReset' = NoThread
    /\ Goto(t, AfterResetBlock)
    /\ UNCHANGED <<sysVars, mbActivateLocalizationMode,
                   mbDeactivateLocalizationMode, mbResetAndLoad, mMutexMode,
                   mMutexState, mTrackingState, mapVars, workerVars, stream,
                   startFlags>>

\* unique_lock<mutex> lock(mMutexReset), of the reset-and-load block
TrackLockLoad(t) ==
    /\ At(t, "tk_load_lock")
    /\ mMutexReset = NoThread
    /\ mMutexReset' = t
    /\ Goto(t, "tk_load")
    /\ UNCHANGED <<sysVars, flagVars, mMutexMode, mMutexState, mTrackingState,
                   mapVars, trk, workerVars, stream, startFlags, log>>

\* if(mbResetAndLoad) { mpTracker->ResetAfterLoaded(); mbResetAndLoad = false; }
TrackCheckResetAndLoad(t) ==
    /\ At(t, "tk_load")
    /\ IF mbResetAndLoad
       THEN /\ trk' = TrackerResetAfterLoaded(trk)
            /\ mbResetAndLoad' = FALSE
            /\ Note(t, "ResetAfterLoaded")
       ELSE UNCHANGED <<trk, mbResetAndLoad, log>>
    /\ mMutexReset' = NoThread
    /\ Goto(t, "tk_grab")
    /\ UNCHANGED <<sysVars, mbActivateLocalizationMode,
                   mbDeactivateLocalizationMode, mbReset, mMutexMode,
                   mMutexState, mTrackingState, mapVars, workerVars, stream,
                   startFlags>>

\* mpTracker->GrabImage...: the frame gets the next frame id; tracking ends
\* in one of its states, and a tracked frame may become a keyframe while
\* mapping is enabled and local mapping accepts keyframes.
TrackGrab(t) ==
    /\ At(t, "tk_grab")
    /\ \E state \in {NOT_INITIALIZED, OK, LOST}, makeKF \in BOOLEAN :
          LET insert == /\ makeKF /\ state = OK /\ ~trk.mbOnlyTracking
                        /\ ~lm.stopped /\ ~lm.stopRequested
          IN  /\ trk' = [trk EXCEPT !.mState = state, !.frameId = @ + 1]
              /\ (makeKF => insert)
              /\ mpMap' = IF insert THEN mpMap \cup {nNextId} ELSE mpMap
              /\ mpKeyFrameDatabase' =
                     IF insert THEN mpKeyFrameDatabase \cup {nNextId}
                     ELSE mpKeyFrameDatabase
    /\ nNextId' = nNextId + 1
    /\ Note(t, "Grab")
    /\ startFlags' = [startFlags EXCEPT ![t] = {}]
    /\ Goto(t, "tk_state_lock")
    /\ UNCHANGED <<sysVars, flagVars, mutexVars, mTrackingState, mapfile, files,
                   workerVars, stream>>

\* unique_lock<mutex> lock2(mMutexState)
TrackLockState(t) ==
    /\ At(t, "tk_state_lock")
    /\ mMutexState = NoThread
    /\ mMutexState' = t
    /\ Goto(t, "tk_snapshot")
    /\ UNCHANGED <<sysVars, flagVars, mMutexMode, mMutexReset, mTrackingState,
                   mapVars, trk, workerVars, stream, startFlags, log>>

\* mTrackingState = mpTracker->mState; (and the two other snapshots)
TrackSnapshot(t) ==
    /\ At(t, "tk_snapshot")
    /\ mTrackingState' = trk.mState
    /\ Goto(t, "tk_ret")
    /\ UNCHANGED <<sysVars, flagVars, mutexVars, mapVars, trk, workerVars,
                   stream, startFlags, log>>

\* return Tcw; lock2 is released.
TrackReturn(t) ==
    /\ At(t, "tk_ret")
    /\ mMutexState' = NoThread
    /\ Return(t)
    /\ UNCHANGED <<sysVars, flagVars, mMutexMode, mMutexReset, mTrackingState,
                   mapVars, trk, workerVars, stream>>

TrackBody(t) ==
    \/ TrackLockMode(t)
    \/ TrackCheckActivate(t)
    \/ TrackWaitStopped(t)
    \/ TrackInformOnly(t)
    \/ TrackCheckDeactivate(t)
    \/ TrackRelease(t)
    \/ TrackLockReset(t)
    \/ TrackCheckReset(t)
    \/ TrackLockLoad(t)
    \/ TrackCheckResetAndLoad(t)
    \/ TrackGrab(t)
    \/ TrackLockState(t)
    \/ TrackSnapshot(t)
    \/ TrackReturn(t)

(* ActivateLocalizationMode, DeactivateLocalizationMode, Reset *)

ActivateLock(t) ==
    /\ At(t, "idle")
    /\ mMutexMode = NoThread
    /\ mMutexMode' = t
    /\ Goto(t, "am_set")
    /\ UNCHANGED <<sysVars, flagVars, mMutexReset, mMutexState, mTrackingState,
                   mapVars, trk, workerVars, stream, startFlags, log>>

\* mbActivateLocalizationMode = true;
ActivateSet(t) ==
    /\ At(t, "am_set")
    /\ mbActivateLocalizationMode' = TRUE
    /\ mMutexMode' = NoThread
    /\ Goto(t, "idle")
    /\ UNCHANGED <<sysVars, mbDeactivateLocalizationMode, mbReset,
                   mbResetAndLoad, mMutexReset, mMutexState, mTrackingState,
                   mapVars, trk, workerVars, stream, startFlags, log>>

DeactivateLock(t) ==
    /\ At(t, "idle")
    /\ mMutexMode = NoThread
    /\ mMutexMode' = t
    /\ Goto(t, "dm_set")
    /\ UNCHANGED <<sysVars, flagVars, mMutexReset, mMutexState, mTrackingState,
                   mapVars, trk, workerVars, stream, startFlags, log>>

\* mbDeactivateLocalizationMode = true;
DeactivateSet(t) ==
    /\ At(t, "dm_set")
    /\ mbDeactivateLocalizationMode' = TRUE
    /\ mMutexMode' = NoThread
    /\ Goto(t, "idle")
    /\ UNCHANGED <<sysVars, mbActivateLocalizationMode, mbReset, mbResetAndLoad,
                   mMutexReset, mMutexState, mTrackingState, mapVars, trk,
                   workerVars, stream, startFlags, log>>

ResetLock(t) ==
    /\ At(t, "idle")
    /\ mMutexReset = NoThread
    /\ mMutexReset' = t
    /\ Goto(t, "rs_set")
    /\ UNCHANGED <<sysVars, flagVars, mMutexMode, mMutexState, mTrackingState,
                   mapVars, trk, workerVars, stream, startFlags, log>>

\* mbReset = true; mpTracker->frameId = 0;
ResetSet(t) ==
    /\ At(t, "rs_set")
    /\ mbReset' = TRUE
    /\ trk' = [trk EXCEPT !.frameId = 0]
    /\ mMutexReset' = NoThread
    /\ Goto(t, "idle")
    /\ UNCHANGED <<sysVars, mbActivateLocalizationMode,
                   mbDeactivateLocalizationMode, mbResetAndLoad, mMutexMode,
                   mMutexState, mTrackingState, mapVars, workerVars, stream,
                   startFlags, log>>

(* SaveManual and SaveMap *)

\* if (has_suffix(strMapFile, ".bin")) mapfile = strMapFile;
RememberPath(strMapFile) ==
    IF has_suffix(strMapFile, BinSuffix) THEN strMapFile ELSE mapfile

\* SaveManual: SaveMap(mapfile) passes the member by reference, so filename
\* in SaveMap is mapfile itself.
SaveManualEnter(t) ==
    /\ At(t, "idle")
    /\ \E strMapFile \in Paths :
          /\ mapfile' = RememberPath(strMapFile)
          /\ lastSave' = [NoSave EXCEPT !.strMapFile = strMapFile]
    /\ Goto(t, "sv_check")
    /\ UNCHANGED <<saveFrame, flagVars, mutexVars, mTrackingState, mpMap,
                   mpKeyFrameDatabase, files, nNextId, trk, workerVars, stream,
                   startFlags, log>>

SaveAllowed_always(state) == TRUE

\* mTrackingState == 3 || mTrackingState == 2
SaveAllowed(state) == state = 3 \/ state = 2

\* What the log keeps of the snapshot a Save found.
SeenState ==
    IF mTrackingState \in {OK, LOST} THEN "SawInitialized"
    ELSE "SawNotInitialized"

\* The test of mTrackingState (read without mMutexState) and, when it
\* passes, mpLocalMapper->RequestStop().
SaveCheckState(t) ==
    /\ At(t, "sv_check")
    /\ IF SaveAllowed(mTrackingState)
       THEN /\ lm' = RequestStop(lm)
            /\ log' = [log EXCEPT ![t] = <<SeenState, "RequestStop">>]
            /\ Goto(t, "sv_wait")
       ELSE /\ log' = [log EXCEPT ![t] = <<SeenState>>]
            /\ Goto(t, "sv_ret")
            /\ UNCHANGED lm
    /\ UNCHANGED <<sysVars, flagVars, mutexVars, mTrackingState, mapVars, trk,
                   viewer, lc, stream, startFlags>>

\* while (!mpLocalMapper->isStopped()) sleep
SaveWaitStopped(t) ==
    /\ At(t, "sv_wait")
    /\ isStopped(lm)
    /\ Note(t, Observed(lm))
    /\ Goto(t, "sv_open")
    /\ UNCHANGED <<sysVars, flagVars, mutexVars, mTrackingState, mapVars, trk,
                   workerVars, stream, startFlags>>

\* std::ofstream out(filename, binary): the file is created empty; when it
\* cannot be opened the process exits.
SaveOpen(t) ==
    /\ At(t, "sv_open")
    /\ \E writable \in BOOLEAN :
          IF writable /\ mapfile \in FilePaths
          THEN /\ files' = [files EXCEPT ![mapfile] = File(<<>>)]
               /\ stream' = [stream EXCEPT ![t] = mapfile]
               /\ Goto(t, "sv_write_map")
               /\ Note(t, "Open")
               /\ UNCHANGED sysVars
          ELSE /\ exited' = TRUE
               /\ UNCHANGED <<started, mSensor, hasViewer, bReuseMap, ctor, lastSave, changeVars, trajVars, files,
                              stream, pc, log>>
    /\ UNCHANGED <<flagVars, mutexVars, mTrackingState, mapfile, mpMap,
                   mpKeyFrameDatabase, nNextId, trk, workerVars, startFlags>>

\* What a stream leaves in a file when it writes its k-th object.
HoleObject == [kind |-> "hole", kfs |-> {}]

WriteAt(file, k, object) ==
    LET content == file.objects
    IN  File(IF Len(content) >= k THEN [content EXCEPT ![k] = object]
             ELSE IF Len(content) = k - 1 THEN Append(content, object)
             ELSE Append([i \in 1..(k - 1) |->
                             IF i <= Len(content) THEN content[i]
                             ELSE HoleObject],
                         object))

\* oa << mpMap;
SaveWriteMap(t) ==
    /\ At(t, "sv_write_map")
    /\ files' = [files EXCEPT ![stream[t]] = WriteAt(@, 1, MapObject(mpMap))]
    /\ Note(t, "WriteMap")
    /\ Goto(t, "sv_write_index")
    /\ UNCHANGED <<sysVars, flagVars, mutexVars, mTrackingState, mapfile, mpMap,
                   mpKeyFrameDatabase, nNextId, trk, workerVars, stream,
                   startFlags>>

\* oa << mpKeyFrameDatabase;
SaveWriteIndex(t) ==
    /\ At(t, "sv_write_index")
    /\ files' = [files EXCEPT
                   ![stream[t]] = WriteAt(@, 2, IndexObject(mpKeyFrameDatabase))]
    /\ Note(t, "WriteIndex")
    /\ Goto(t, "sv_release")
    /\ UNCHANGED <<sysVars, flagVars, mutexVars, mTrackingState, mapfile, mpMap,
                   mpKeyFrameDatabase, nNextId, trk, workerVars, stream,
                   startFlags>>

\* out.close(); mpLocalMapper->Release();
SaveRelease(t) ==
    /\ At(t, "sv_release")
    /\ stream' = [stream EXCEPT ![t] = NoStream]
    /\ lm' = Release(lm)
    /\ Note(t, "Release")
    /\ Goto(t, "sv_ret")
    /\ UNCHANGED <<sysVars, flagVars, mutexVars, mTrackingState, mapVars, trk,
                   viewer, lc, startFlags>>

SaveReturn(t) ==
    /\ At(t, "sv_ret")
    /\ Return(t)
    /\ lastSave' = NoSave
    /\ UNCHANGED <<saveFrame, flagVars, mutexVars, mTrackingState, mapVars, trk,
                   workerVars, stream>>

Save(t) ==
    \/ SaveManualEnter(t)
    \/ SaveCheckState(t)
    \/ SaveWaitStopped(t)
    \/ SaveOpen(t)
    \/ SaveWriteMap(t)
    \/ SaveWriteIndex(t)
    \/ SaveRelease(t)
    \/ SaveReturn(t)

(* ResetAndLoad and LoadMapDuring *)

ResetAndLoadLock(t) ==
    /\ At(t, "idle")
    /\ mMutexReset = NoThread
    /\ mMutexReset' = t
    /\ Goto(t, "rl_set")
    /\ UNCHANGED <<sysVars, flagVars, mMutexMode, mMutexState, mTrackingState,
                   mapVars, trk, workerVars, stream, startFlags, log>>

\* mbResetAndLoad = true; the path is remembered; with a remembered path
\* LoadMapDuring(mapfile) starts with mpLocalMapper->RequestStop().
ResetAndLoadSet(t) ==
    /\ At(t, "rl_set")
    /\ mbResetAndLoad' = TRUE
    /\ \E strMapFile \in Paths : mapfile' = RememberPath(strMapFile)
    /\ IF mapfile' # EmptyString
       THEN /\ lm' = RequestStop(lm)
            /\ Note(t, "RequestStop")
            /\ Goto(t, "rl_wait")
       ELSE /\ Note(t, "NoMapToLoad")
            /\ Goto(t, "rl_ret")
            /\ UNCHANGED lm
    /\ UNCHANGED <<sysVars, mbActivateLocalizationMode,
                   mbDeactivateLocalizationMode, mbReset, mutexVars,
                   mTrackingState, mpMap, mpKeyFrameDatabase, files, nNextId,
                   trk, viewer, lc, stream, startFlags>>

\* while (!mpLocalMapper->isStopped()) sleep; then, with a viewer,
\* mpViewer->RequestStop().
LoadWaitStopped(t) ==
    /\ At(t, "rl_wait")
    /\ isStopped(lm)
    /\ IF hasViewer
       THEN /\ viewer' = RequestStop(viewer)
            /\ log' = [log EXCEPT ![t] = @ \o <<Observed(lm), "ViewerRequestStop">>]
            /\ Goto(t, "rl_wait_viewer")
       ELSE /\ Note(t, Observed(lm))
            /\ Goto(t, "rl_open")
            /\ UNCHANGED viewer
    /\ UNCHANGED <<sysVars, flagVars, mutexVars, mTrackingState, mapVars, trk,
                   lm, lc, stream, startFlags>>

\* while(!mpViewer->isStopped()) sleep
LoadWaitViewer(t) ==
    /\ At(t, "rl_wait_viewer")
    /\ isStopped(viewer)
    /\ Note(t, "Viewer" \o Observed(viewer))
    /\ Goto(t, "rl_open")
    /\ UNCHANGED <<sysVars, flagVars, mutexVars, mTrackingState, mapVars, trk,
                   workerVars, stream, startFlags>>

\* if (!in) { cerr << ...; return; }
LoadOpenFailed(t) ==
    /\ Note(t, "CannotOpen")
    /\ Goto(t, "rl_ret")
    /\ UNCHANGED <<lm, viewer, stream>>

\* std::ifstream in(filename, binary)
LoadOpen(t) ==
    /\ At(t, "rl_open")
    /\ \E readable \in BOOLEAN :
          IF readable /\ LoadMapOk(mapfile, files)
          THEN /\ stream' = [stream EXCEPT ![t] = mapfile]
               /\ Note(t, "Open")
               /\ Goto(t, "rl_read_map")
               /\ UNCHANGED <<lm, viewer>>
          ELSE LoadOpenFailed(t)
    /\ UNCHANGED <<sysVars, flagVars, mutexVars, mTrackingState, mapVars, trk,
                   lc, startFlags>>

\* The k-th object of a file can be read as an object of this kind.
Readable(file, k, kind) ==
    file.exists /\ Len(file.objects) >= k /\ file.objects[k].kind = kind

\* ia >> mpMap; an archive that ends early throws, and nothing catches it.
LoadReadMap(t) ==
    /\ At(t, "rl_read_map")
    /\ IF Readable(files[stream[t]], 1, "Map")
       THEN /\ mpMap' = files[stream[t]].objects[1].kfs
            /\ Note(t, "ReadMap")
            /\ Goto(t, "rl_read_index")
            /\ UNCHANGED sysVars
       ELSE /\ exited' = TRUE
            /\ UNCHANGED <<started, mSensor, hasViewer, bReuseMap, ctor, lastSave, changeVars, trajVars, mpMap, pc,
                           log>>
    /\ UNCHANGED <<flagVars, mutexVars, mTrackingState, mapfile,
                   mpKeyFrameDatabase, files, nNextId, trk, workerVars, stream,
                   startFlags>>

\* ia >> mpKeyFrameDatabase;
LoadReadIndex(t) ==
    /\ At(t, "rl_read_index")
    /\ IF Readable(files[stream[t]], 2, "KeyFrameDatabase")
       THEN /\ mpKeyFrameDatabase' = files[stream[t]].objects[2].kfs
            /\ Note(t, "ReadIndex")
            /\ Goto(t, "rl_rebuild")
            /\ UNCHANGED sysVars
       ELSE /\ exited' = TRUE
            /\ UNCHANGED <<started, mSensor, hasViewer, bReuseMap, ctor, lastSave, changeVars, trajVars,
                           mpKeyFrameDatabase, pc, log>>
    /\ UNCHANGED <<flagVars, mutexVars, mTrackingState, mapfile, mpMap, files,
                   nNextId, trk, workerVars, stream, startFlags>>

\* The loop over mpMap->GetAllKeyFrames() and Frame::nNextId = mnFrameId.
LoadRebuild(t) ==
    /\ At(t, "rl_rebuild")
    /\ nNextId' = NextIdAfterLoad(mpMap)
    /\ Note(t, "NextId")
    /\ Goto(t, "rl_release")
    /\ UNCHANGED <<sysVars, flagVars, mutexVars, mTrackingState, mapfile, mpMap,
                   mpKeyFrameDatabase, files, trk, workerVars, stream,
                   startFlags>>

\* in.close(); mpLocalMapper->Release(); if(mpViewer) mpViewer->Release();
LoadRelease(t) ==
    /\ At(t, "rl_release")
    /\ stream' = [stream EXCEPT ![t] = NoStream]
    /\ lm' = Release(lm)
    /\ viewer' = IF hasViewer THEN Release(viewer) ELSE viewer
    /\ Note(t, "Release")
    /\ Goto(t, "rl_ret")
    /\ UNCHANGED <<sysVars, flagVars, mutexVars, mTrackingState, mapVars, trk,
                   lc, startFlags>>

\* ResetAndLoad returns and its lock on mMutexReset is released.
ResetAndLoadReturn(t) ==
    /\ At(t, "rl_ret")
    /\ mMutexReset' = NoThread
    /\ Return(t)
    /\ UNCHANGED <<sysVars, flagVars, mMutexMode, mMutexState, mTrackingState,
                   mapVars, trk, workerVars, stream>>

ResetAndLoad(t) ==
    \/ ResetAndLoadLock(t)
    \/ ResetAndLoadSet(t)
    \/ LoadWaitStopped(t)
    \/ LoadWaitViewer(t)
    \/ LoadOpen(t)
    \/ LoadReadMap(t)
    \/ LoadReadIndex(t)
    \/ LoadRebuild(t)
    \/ LoadRelease(t)
    \/ ResetAndLoadReturn(t)

(* Shutdown *)

\* mpLocalMapper->RequestFinish();
ShutdownRequestLocalMapper(t) ==
    /\ At(t, "idle")
    /\ lm' = RequestFinish(lm)
    /\ log' = [log EXCEPT ![t] = <<"RequestFinishLocalMapper">>]
    /\ Goto(t, "sd_loop_closer")
    /\ UNCHANGED <<sysVars, flagVars, mutexVars, mTrackingState, mapVars, trk,
                   viewer, lc, stream, startFlags>>

\* mpLoopCloser->RequestFinish();
ShutdownRequestLoopCloser(t) ==
    /\ At(t, "sd_loop_closer")
    /\ lc' = RequestFinish(lc)
    /\ Note(t, "RequestFinishLoopCloser")
    /\ Goto(t, IF hasViewer THEN "sd_viewer" ELSE "sd_wait_workers")
    /\ UNCHANGED <<sysVars, flagVars, mutexVars, mTrackingState, mapVars, trk,
                   lm, viewer, stream, startFlags>>

\* if(mpViewer) mpViewer->RequestFinish();
ShutdownRequestViewer(t) ==
    /\ At(t, "sd_viewer")
    /\ viewer' = RequestFinish(viewer)
    /\ Note(t, "RequestFinishViewer")
    /\ Goto(t, "sd_wait_viewer")
    /\ UNCHANGED <<sysVars, flagVars, mutexVars, mTrackingState, mapVars, trk,
                   lm, lc, stream, startFlags>>

\* while(!mpViewer->isFinished()) sleep
ShutdownWaitViewer(t) ==
    /\ At(t, "sd_wait_viewer")
    /\ isFinished(viewer)
    /\ Note(t, "ViewerFinished")
    /\ Goto(t, "sd_wait_workers")
    /\ UNCHANGED <<sysVars, flagVars, mutexVars, mTrackingState, mapVars, trk,
                   workerVars, stream, startFlags>>

WorkersDone_noGBA == isFinished(lm) /\ isFinished(lc)

\* The negation of the last loop's condition:
\* !mpLocalMapper->isFinished() || !mpLoopCloser->isFinished() || mpLoopCloser->isRunningGBA()
WorkersDone == isFinished(lm) /\ isFinished(lc) /\ ~isRunningGBA

\* while(...) sleep; Shutdown returns.
ShutdownWaitWorkers(t) ==
    /\ At(t, "sd_wait_workers")
    /\ WorkersDone
    /\ Note(t, "WorkersFinished")
    /\ Goto(t, "sd_ret")
    /\ UNCHANGED <<sysVars, flagVars, mutexVars, mTrackingState, mapVars, trk,
                   workerVars, stream, startFlags>>

Shutdown(t) ==
    \/ ShutdownRequestLocalMapper(t)
    \/ ShutdownRequestLoopCloser(t)
    \/ ShutdownRequestViewer(t)
    \/ ShutdownWaitViewer(t)
    \/ ShutdownWaitWorkers(t)

(* SaveTrajectoryTUM and SaveTrajectoryKITTI *)

\* mpMap->GetAllKeyFrames(): the keyframes the map holds.
GetAllKeyFrames == {k \in DOMAIN keyframes : keyframes[k].inMap}

\* sort(vpKFs.begin(), vpKFs.end(), KeyFrame::lId); vpKFs[0]
FirstKeyFrame == CHOOSE k \in GetAllKeyFrames : \A j \in GetAllKeyFrames : k <= j

\* The formats that can be exported.
Formats == {"TUM", "KITTI"}

\* The entry of an export: nothing is written for a monocular system;
\* otherwise Two = vpKFs[0]->GetPoseInverse() and the iterators start.
SaveTrajectoryEnter(t) ==
    /\ At(t, "idle") /\ t \in TrackingThreads
    /\ GetAllKeyFrames # {}
    /\ \E fmt \in Formats :
          /\ format' = fmt
          /\ written' = <<>>
          /\ IF mSensor = "MONOCULAR"
             THEN /\ trajFile' = "unopened"
                  /\ UNCHANGED <<Two, lit, pc>>
             ELSE /\ Two' = Inverse(keyframes[FirstKeyFrame].Tcw)
                  /\ trajFile' = "open"
                  /\ lit' = 1
                  /\ Goto(t, "tj_frame")
    /\ UNCHANGED <<exited, started, mSensor, hasViewer, bReuseMap, ctor, lastSave, changeVars, keyframes,
                   mlpReferences, mlRelativeFramePoses, mlbLost, pKF, Trw,
                   kfIndex,
                   flagVars, mutexVars, mTrackingState, mapVars, trk,
                   workerVars, stream, startFlags, log>>

\* The head of the for loop: the end of the lists, a frame flagged lost
\* (SaveTrajectoryTUM only), or the start of a frame's computation.
TrajectoryNextFrame(t) ==
    /\ At(t, "tj_frame")
    /\ IF lit > Len(mlRelativeFramePoses)
       THEN /\ Goto(t, "tj_ret")
            /\ UNCHANGED <<lit, pKF, Trw>>
       ELSE IF format = "TUM" /\ mlbLost[lit]
       THEN /\ lit' = lit + 1
            /\ UNCHANGED <<pKF, Trw, pc>>
       ELSE /\ pKF' = mlpReferences[lit]
            /\ Trw' = Identity
            /\ Goto(t, "tj_walk")
            /\ UNCHANGED lit
    /\ UNCHANGED <<exited, started, mSensor, hasViewer, bReuseMap, ctor, lastSave, changeVars, keyframes,
                   mlpReferences, mlRelativeFramePoses, mlbLost, format, Two,
                   written, trajFile, kfIndex, flagVars, mutexVars, mTrackingState, mapVars, trk,
                   workerVars, stream, startFlags, log>>

WalkStep_reversed(trw, kf) == Mul(kf.mTcp, trw)

\* Trw = Trw*pKF->mTcp
WalkStep(trw, kf) == Mul(trw, kf.mTcp)

\* while(pKF->isBad()) { Trw = Trw*pKF->mTcp; pKF = pKF->GetParent(); }
TrajectoryWalk(t) ==
    /\ At(t, "tj_walk")
    /\ IF keyframes[pKF].mbBad
       THEN /\ Trw' = WalkStep(Trw, keyframes[pKF])
            /\ pKF' = keyframes[pKF].mpParent
            /\ UNCHANGED pc
       ELSE /\ Goto(t, "tj_emit")
            /\ UNCHANGED <<pKF, Trw>>
    /\ UNCHANGED <<exited, started, mSensor, hasViewer, bReuseMap, ctor, lastSave, changeVars, keyframes,
                   mlpReferences, mlRelativeFramePoses, mlbLost, format, Two,
                   lit, written, trajFile, kfIndex, flagVars, mutexVars, mTrackingState, mapVars,
                   trk, workerVars, stream, startFlags, log>>

\* Trw = Trw*pKF->GetPose()*Two; Tcw = (*lit)*Trw; the line written is the
\* inverse of Tcw: Rwc = R^T, twc = -Rwc*t.
ExportedPose(rel, trw, kf, two) ==
    Inverse(Mul(rel, Mul(Mul(trw, kf.Tcw), two)))

TrajectoryEmit(t) ==
    /\ At(t, "tj_emit")
    /\ written' = Append(written,
                         [frame |-> lit,
                          pose |-> ExportedPose(mlRelativeFramePoses[lit], Trw,
                                                keyframes[pKF], Two)])
    /\ lit' = lit + 1
    /\ Goto(t, "tj_frame")
    /\ UNCHANGED <<exited, started, mSensor, hasViewer, bReuseMap, ctor, lastSave, changeVars, keyframes,
                   mlpReferences, mlRelativeFramePoses, mlbLost, format, Two,
                   pKF, Trw, trajFile, kfIndex, flagVars, mutexVars, mTrackingState, mapVars, trk,
                   workerVars, stream, startFlags, log>>

\* f.close(); the export returns.
TrajectoryReturn(t) ==
    /\ At(t, "tj_ret")
    /\ trajFile' = "closed"
    /\ Goto(t, "idle")
    /\ UNCHANGED <<exited, started, mSensor, hasViewer, bReuseMap, ctor, lastSave, changeVars, keyframes,
                   mlpReferences, mlRelativeFramePoses, mlbLost, format, Two,
                   lit, pKF, Trw, written, kfIndex, flagVars, mutexVars, mTrackingState, mapVars, trk,
                   workerVars, stream, startFlags, log>>

(* SaveKeyFrameTrajectoryTUM *)

\* sort(vpKFs.begin(), vpKFs.end(), KeyFrame::lId): the map's keyframes by
\* ascending mnId.
RECURSIVE SortedById(_)
SortedById(kfs) ==
    IF kfs = {} THEN <<>>
    ELSE LET least == CHOOSE k \in kfs : \A j \in kfs : k <= j
         IN  <<least>> \o SortedById(kfs \ {least})

\* The entry of the keyframe export, for every sensor: the file is opened.
SaveKeyFrameTrajectoryEnter(t) ==
    /\ At(t, "idle") /\ t \in TrackingThreads
    /\ keyframes # <<>>
    /\ format' = "KeyFrameTUM"
    /\ written' = <<>>
    /\ trajFile' = "open"
    /\ kfIndex' = 1
    /\ Goto(t, "kt_frame")
    /\ UNCHANGED <<exited, started, mSensor, hasViewer, bReuseMap, ctor, lastSave, changeVars, keyframes,
                   mlpReferences, mlRelativeFramePoses, mlbLost, Two, lit, pKF,
                   Trw, flagVars, mutexVars, mTrackingState, mapVars, trk,
                   workerVars, stream, startFlags, log>>

SkipKeyFrame_never(kf) == FALSE

\* if(pKF->isBad()) continue;
SkipKeyFrame(kf) == kf.mbBad

\* One turn of the loop over vpKFs: a bad keyframe is passed over, any
\* other is written as its camera centre and the quaternion of its
\* rotation transposed, that is, as its inverse pose.
KeyFrameTrajectoryStep(t) ==
    /\ At(t, "kt_frame")
    /\ LET vpKFs == SortedById(GetAllKeyFrames)
       IN  IF kfIndex > Len(vpKFs)
           THEN /\ Goto(t, "kt_ret")
                /\ UNCHANGED <<kfIndex, written>>
           ELSE /\ kfIndex' = kfIndex + 1
                /\ written' =
                      IF SkipKeyFrame(keyframes[vpKFs[kfIndex]]) THEN written
                      ELSE Append(written,
                                  [frame |-> vpKFs[kfIndex],
                                   pose |-> Inverse(keyframes[vpKFs[kfIndex]].Tcw)])
                /\ UNCHANGED pc
    /\ UNCHANGED <<exited, started, mSensor, hasViewer, bReuseMap, ctor, lastSave, changeVars, keyframes,
                   mlpReferences, mlRelativeFramePoses, mlbLost, format, Two,
                   lit, pKF, Trw, trajFile, flagVars, mutexVars,
                   mTrackingState, mapVars, trk, workerVars, stream,
                   startFlags, log>>

\* f.close(); the keyframe export returns.
KeyFrameTrajectoryReturn(t) ==
    /\ At(t, "kt_ret")
    /\ trajFile' = "closed"
    /\ Goto(t, "idle")
    /\ UNCHANGED <<exited, started, mSensor, hasViewer, bReuseMap, ctor, lastSave, changeVars, keyframes,
                   mlpReferences, mlRelativeFramePoses, mlbLost, format, Two,
                   lit, pKF, Trw, written, kfIndex, flagVars, mutexVars,
                   mTrackingState, mapVars, trk, workerVars, stream,
                   startFlags, log>>

SaveKeyFrameTrajectory(t) ==
    \/ SaveKeyFrameTrajectoryEnter(t)
    \/ KeyFrameTrajectoryStep(t)
    \/ KeyFrameTrajectoryReturn(t)

SaveTrajectory(t) ==
    \/ SaveTrajectoryEnter(t)
    \/ TrajectoryNextFrame(t)
    \/ TrajectoryWalk(t)
    \/ TrajectoryEmit(t)
    \/ TrajectoryReturn(t)

\* The spanning trees an export can find: the root is never culled, every
\* other keyframe hangs below an older one and, once culled, keeps the
\* transform to its parent in mTcp. A keyframe that is not bad is in the
\* map; a bad one is erased from it, at once or a moment later.
KeyFrameGraphs ==
    {g \in [KeyFrameIds ->
              [mbBad : BOOLEAN, inMap : BOOLEAN,
               mpParent : KeyFrameIds \cup {NullKeyFrame},
               mTcp : PoseInputs \cup {Identity}, Tcw : PoseInputs]] :
        /\ ~g[0].mbBad /\ g[0].mpParent = NullKeyFrame /\ g[0].mTcp = Identity
        /\ \A k \in KeyFrameIds : ~g[k].mbBad => g[k].inMap
        /\ \A k \in KeyFrameIds \ {0} :
              /\ g[k].mpParent \in KeyFrameIds /\ g[k].mpParent < k
              /\ g[k].mbBad => g[k].mTcp \in PoseInputs
              /\ ~g[k].mbBad => g[k].mTcp = Identity}

\* The trajectory logs an export can find: three lists of one length.
TrajectoryLengths == 1..MaxFrames

(* ------------------------- specifications ------------------------------ *)

Commands(t) ==
    \/ ActivateLock(t)
    \/ ActivateSet(t)
    \/ DeactivateLock(t)
    \/ DeactivateSet(t)
    \/ ResetLock(t)
    \/ ResetSet(t)

\* The worker threads while the system runs.
Workers ==
    \/ LocalMappingStop
    \/ ViewerStop

\* The worker threads while the system shuts down.
FinishingWorkers ==
    \/ LocalMappingFinish
    \/ ViewerFinish
    \/ LoopClosingStartGBA
    \/ LoopClosingEndGBA
    \/ LoopClosingFinish

\* Calls made one after the other by the tracking thread, on every
\* configuration the constructor can leave.
SeqNext ==
    \/ \E t \in TrackingThreads :
          \/ TrackEnter(t)
          \/ TrackBody(t)
          \/ Commands(t)
          \/ Save(t)
          \/ ResetAndLoad(t)
    \/ Workers

SeqSpec == Init /\ [][SeqNext]_vars

\* The tracking engine as the concurrent runs see it: a frame is tracked or
\* not yet initialized, and no keyframe is promoted.
QuietTracker(t) ==
    pc[t] = "tk_grab" => mpMap' = mpMap /\ trk'.mState \in {NOT_INITIALIZED, OK}

\* The configurations the concurrent runs start from: a system constructed
\* on an existing map file.
ConcurrentInit ==
    /\ Init
    /\ ~exited
    /\ bReuseMap
    /\ mSensor \in {"MONOCULAR", "STEREO"}
    /\ mTrackingState \in {NOT_INITIALIZED, OK}

\* Calls from several threads at once, one of them the tracking thread.
Next ==
    \/ \E t \in Threads :
          \/ TrackEnter(t)
          \/ TrackBody(t) /\ QuietTracker(t)
          \/ Commands(t)
          \/ Save(t)
          \/ ResetAndLoad(t)
    \/ Workers

Spec == ConcurrentInit /\ [][Next]_vars

\* The configurations a Shutdown starts from: a running system of either
\* kind (with or without a viewer) constructed without a map file.
ShutdownInit ==
    /\ Init
    /\ ~exited
    /\ mapfile = EmptyString
    /\ \A f \in FilePaths : ~files[f].exists
    /\ mTrackingState = SYSTEM_NOT_READY

\* The commands that act on the workers through the next frame.
ModeCommands(t) ==
    \/ ActivateLock(t)
    \/ ActivateSet(t)
    \/ DeactivateLock(t)
    \/ DeactivateSet(t)

\* Shutdown called from any thread while the tracking thread still feeds
\* frames and commands arrive, with the workers free to finish.
ShutdownNext ==
    \/ \E t \in Threads :
          \/ Shutdown(t)
          \/ TrackEnter(t)
          \/ TrackBody(t) /\ QuietTracker(t)
          \/ ModeCommands(t)
    \/ LocalMappingStop
    \/ FinishingWorkers

ShutdownSpec == ShutdownInit /\ [][ShutdownNext]_vars

\* The systems an export is called on: running, built without a map file,
\* with some keyframes and a trajectory log of one of the given lengths.
TrackedSystem(lengths) ==
    /\ SystemInit
    /\ NoChecks
    /\ ctor = CtorDone
    /\ lastSave = NoSave
    /\ ~exited
    /\ ~hasViewer
    /\ mapfile = EmptyString
    /\ \A f \in FilePaths : ~files[f].exists
    /\ mTrackingState = OK
    /\ keyframes \in KeyFrameGraphs
    /\ \E n \in lengths :
          /\ mlpReferences \in [1..n -> KeyFrameIds]
          /\ mlRelativeFramePoses \in [1..n -> PoseInputs]
          /\ mlbLost \in [1..n -> BOOLEAN]
    /\ format = "none"
    /\ Two = Identity
    /\ lit = 1
    /\ pKF = NullKeyFrame
    /\ Trw = Identity
    /\ written = <<>>
    /\ trajFile = "unopened"
    /\ kfIndex = 1

\* The camera exports, on maps from which every culled keyframe has been
\* erased.
TrajectoryInit ==
    /\ TrackedSystem(TrajectoryLengths)
    /\ \A k \in KeyFrameIds : keyframes[k].inMap = ~keyframes[k].mbBad

TrajectoryNext == \E t \in TrackingThreads : SaveTrajectory(t)

\* The keyframe export and the camera exports, on maps that may still
\* hold a keyframe flagged bad, with a log of one frame.
KeyFrameTrajectoryInit == TrackedSystem({1})

KeyFrameTrajectoryNext ==
    \E t \in TrackingThreads : SaveTrajectory(t) \/ SaveKeyFrameTrajectory(t)

KeyFrameTrajectorySpec ==
    KeyFrameTrajectoryInit /\ [][KeyFrameTrajectoryNext]_vars

TrajectorySpec == TrajectoryInit /\ [][TrajectoryNext]_vars

(* System::System, statement by statement *)

\* The members before the body of the constructor runs.
Unconstructed(sensor, fs, garbage) ==
    /\ exited = FALSE
    /\ started = FALSE
    /\ mSensor = sensor
    /\ hasViewer = FALSE
    /\ bReuseMap = FALSE
    /\ mbActivateLocalizationMode = FALSE
    /\ mbDeactivateLocalizationMode = FALSE
    /\ mbReset = FALSE
    /\ mbResetAndLoad = FALSE
    /\ mMutexMode = NoThread
    /\ mMutexReset = NoThread
    /\ mMutexState = NoThread
    /\ mTrackingState = garbage
    /\ mapfile = EmptyString
    /\ mpMap = EmptyMap
    /\ mpKeyFrameDatabase = EmptyMap
    /\ files = fs
    /\ nNextId = 0
    /\ trk = [mState |-> NO_IMAGES_YET, mbOnlyTracking |-> FALSE, frameId |-> 0]
    /\ lm = WorkerIdle
    /\ viewer = WorkerIdle
    /\ lc = [finishRequested |-> FALSE, finished |-> FALSE, runningGBA |-> FALSE]
    /\ pc = [t \in Threads |-> "idle"]
    /\ stream = [t \in Threads |-> NoStream]
    /\ startFlags = [t \in Threads |-> {}]
    /\ log = [t \in Threads |-> <<>>]

\* What no statement of the constructor changes.
ctorFrame == <<mSensor, flagVars, mutexVars, mTrackingState, files, trk,
               workerVars, threadVars, trajVars, lastSave, changeVars>>

\* cv::FileStorage fsSettings(...); if(!fsSettings.isOpened()) exit(-1);
CtorOpenSettings ==
    /\ ~exited /\ ctor.step = "settings"
    /\ IF ctor.settingsOk
       THEN ctor' = [ctor EXCEPT !.step = "vocabulary"] /\ UNCHANGED exited
       ELSE exited' = TRUE /\ UNCHANGED ctor
    /\ UNCHANGED <<started, hasViewer, bReuseMap, mapVars, ctorFrame>>

\* The loading method chosen by the suffix of strVocFile.
bVocLoad(strVocFile, parses) ==
    IF has_suffix(strVocFile, TxtSuffix) THEN parses
    ELSE IF has_suffix(strVocFile, BinSuffix) THEN parses
    ELSE FALSE

\* if(!bVocLoad) exit(-1);
CtorLoadVocabulary ==
    /\ ~exited /\ ctor.step = "vocabulary"
    /\ IF bVocLoad(ctor.strVocFile, ctor.vocParses)
       THEN ctor' = [ctor EXCEPT !.step = "map"] /\ UNCHANGED exited
       ELSE exited' = TRUE /\ UNCHANGED ctor
    /\ UNCHANGED <<started, hasViewer, bReuseMap, mapVars, ctorFrame>>

\* System::LoadMap on a file that opens: std::ifstream in(filename).
LoadMapOpens(filename, readable) == readable /\ LoadMapOk(filename, files)

\* bReuseMap = false; the path is kept when it ends in ".bin"; then
\* LoadMap(mapfile), or a new KeyFrameDatabase and a new Map.
CtorLoadMap ==
    /\ ~exited /\ ctor.step = "map"
    /\ mapfile' = RememberPath(ctor.strMapFile)
    /\ IF mapfile' # EmptyString /\ LoadMapOpens(mapfile', ctor.readable)
       THEN IF /\ Readable(files[mapfile'], 1, "Map")
               /\ Readable(files[mapfile'], 2, "KeyFrameDatabase")
            THEN /\ mpMap' = files[mapfile'].objects[1].kfs
                 /\ mpKeyFrameDatabase' = files[mapfile'].objects[2].kfs
                 /\ nNextId' = NextIdAfterLoad(mpMap')
                 /\ bReuseMap' = TRUE
                 /\ ctor' = [ctor EXCEPT !.step = "workers"]
                 /\ UNCHANGED exited
            ELSE /\ exited' = TRUE
                 /\ UNCHANGED <<mpMap, mpKeyFrameDatabase, nNextId, bReuseMap,
                                ctor>>
       ELSE /\ mpMap' = EmptyMap
            /\ mpKeyFrameDatabase' = EmptyMap
            /\ bReuseMap' = FALSE
            /\ ctor' = [ctor EXCEPT !.step = "workers"]
            /\ UNCHANGED <<exited, nNextId>>
    /\ UNCHANGED <<started, hasViewer, ctorFrame>>

\* The Tracking engine is made, the LocalMapping and LoopClosing threads
\* are launched and, with bUseViewer, the Viewer thread.
CtorStartWorkers ==
    /\ ~exited /\ ctor.step = "workers"
    /\ started' = TRUE
    /\ hasViewer' = ctor.bUseViewer
    /\ ctor' = [ctor EXCEPT !.step = "done"]
    /\ UNCHANGED <<exited, bReuseMap, mapVars, ctorFrame>>

Constructor ==
    \/ CtorOpenSettings
    \/ CtorLoadVocabulary
    \/ CtorLoadMap
    \/ CtorStartWorkers

\* The paths a vocabulary is given by.
VocPaths == {PathA, PathTxt, PathShort}

\* The files a constructor can find: each absent or a saved map.
FileSystems == [FilePaths -> {NoFile} \cup {SavedFile(m) : m \in SavedMaps}]

\* The calls of the constructor.
CtorCalls ==
    [step : {"settings"}, settingsOk : BOOLEAN, strVocFile : VocPaths,
     vocParses : BOOLEAN, strMapFile : Paths, bUseViewer : BOOLEAN,
     readable : BOOLEAN]

\* The process ends after a Save that wrote its file, and a fresh instance
\* is constructed on the files left behind, with the path given to the Save.
FreshInstance(t) ==
    /\ At(t, "sv_ret")
    /\ \E i \in DOMAIN log[t] : log[t][i] = "Release"
    /\ \A u \in Threads \ {t} : pc[u] = "idle"
    /\ lastSave' = [lastSave EXCEPT !.mpMap = mpMap, !.fresh = TRUE]
    /\ \E bUseViewer \in BOOLEAN :
          ctor' = [step |-> "settings", settingsOk |-> TRUE,
                   strVocFile |-> PathTxt, vocParses |-> TRUE,
                   strMapFile |-> lastSave.strMapFile,
                   bUseViewer |-> bUseViewer, readable |-> TRUE]
    /\ exited' = FALSE
    /\ started' = FALSE
    /\ hasViewer' = FALSE
    /\ bReuseMap' = FALSE
    /\ mbActivateLocalizationMode' = FALSE
    /\ mbDeactivateLocalizationMode' = FALSE
    /\ mbReset' = FALSE
    /\ mbResetAndLoad' = FALSE
    /\ mMutexMode' = NoThread
    /\ mMutexReset' = NoThread
    /\ mMutexState' = NoThread
    /\ mTrackingState' = SYSTEM_NOT_READY
    /\ mapfile' = EmptyString
    /\ mpMap' = EmptyMap
    /\ mpKeyFrameDatabase' = EmptyMap
    /\ nNextId' = 0
    /\ trk' = [mState |-> NO_IMAGES_YET, mbOnlyTracking |-> FALSE, frameId |-> 0]
    /\ lm' = WorkerIdle
    /\ viewer' = WorkerIdle
    /\ lc' = [finishRequested |-> FALSE, finished |-> FALSE, runningGBA |-> FALSE]
    /\ pc' = [u \in Threads |-> "idle"]
    /\ stream' = [u \in Threads |-> NoStream]
    /\ startFlags' = [u \in Threads |-> {}]
    /\ log' = [u \in Threads |-> <<>>]
    /\ UNCHANGED <<mSensor, files, trajVars, changeVars>>

\* One caller thread; after a Save a fresh instance may be constructed,
\* and the run ends when its constructor returns.
RoundTripNext ==
    \/ ~lastSave.fresh /\ SeqNext
    \/ \E t \in TrackingThreads : FreshInstance(t)
    \/ lastSave.fresh /\ Constructor

\* A running system without a viewer.
RoundTripInit == Init /\ ~exited /\ ~hasViewer /\ mTrackingState = SYSTEM_NOT_READY

RoundTripSpec == RoundTripInit /\ [][RoundTripNext]_vars

(* GetTrackingState, GetTrackedMapPoints, GetTrackedKeyPointsUn *)

\* unique_lock<mutex> lock(mMutexState), of one of the three getters
GetStateLock(t) ==
    /\ At(t, "idle")
    /\ mMutexState = NoThread
    /\ mMutexState' = t
    /\ Goto(t, "gs_read")
    /\ UNCHANGED <<sysVars, flagVars, mMutexMode, mMutexReset, mTrackingState,
                   mapVars, trk, workerVars, stream, startFlags, log>>

\* return mTrackingState; (or one of the two other snapshots) and the lock
\* is released.
GetStateReturn(t) ==
    /\ At(t, "gs_read")
    /\ mMutexState' = NoThread
    /\ Return(t)
    /\ UNCHANGED <<sysVars, flagVars, mMutexMode, mMutexReset, mTrackingState,
                   mapVars, trk, workerVars, stream>>

GetState(t) ==
    \/ GetStateLock(t)
    \/ GetStateReturn(t)

\* The tracking thread feeds frames while other threads read the snapshots
\* and save the map.
SnapshotNext ==
    \/ \E t \in Threads :
          \/ TrackEnter(t)
          \/ TrackBody(t) /\ QuietTracker(t)
          \/ Save(t)
          \/ GetState(t)
    \/ LocalMappingStop

SnapshotSpec == ConcurrentInit /\ [][SnapshotNext]_vars

(* Every operation, from several threads *)

\* Calls of every operation on a single-image system with a viewer. The
\* operations that take a lock come from every thread; Save and Shutdown,
\* which take none, come from the threads that feed no frames. The workers
\* are free to stop and to finish.
LockNext ==
    \/ \E t \in Threads :
          \/ TrackEnter(t)
          \/ TrackBody(t) /\ QuietTracker(t)
          \/ Commands(t)
          \/ ResetAndLoad(t)
          \/ GetState(t)
    \/ \E t \in Threads \ TrackingThreads :
          \/ Save(t)
          \/ Shutdown(t)
    \/ Workers
    \/ LocalMappingFinish
    \/ ViewerFinish
    \/ LoopClosingFinish

LockInit ==
    /\ ConcurrentInit
    /\ mSensor = "MONOCULAR"
    /\ hasViewer
    /\ mTrackingState = OK

LockSpec == LockInit /\ [][LockNext]_vars

(* The blocking waits under fair scheduling *)

\* The steps of the calls of thread t while the waits are studied.
WaitCalls(t) ==
    \/ TrackEnter(t)
    \/ TrackBody(t) /\ QuietTracker(t)
    \/ ModeCommands(t)
    \/ Save(t)
    \/ ResetAndLoad(t)

\* A step of thread t inside a call it has entered.
InCall(t) == pc[t] # "idle" /\ WaitCalls(t)

WaitNext ==
    \/ \E t \in Threads : WaitCalls(t)
    \/ Workers

\* A stereo system with a viewer, constructed on an existing map.
WaitInit ==
    /\ ConcurrentInit
    /\ mSensor = "STEREO"
    /\ hasViewer
    /\ mTrackingState = OK

\* A thread inside a call is scheduled again, and a worker with a stop
\* request outstanding again and again reports stopped.
WaitFairness ==
    /\ \A t \in Threads : WF_vars(InCall(t))
    /\ SF_vars(LocalMappingStop)
    /\ SF_vars(ViewerStop)

WaitSpec == WaitInit /\ [][WaitNext]_vars /\ WaitFairness

(* MapChanged *)

\* Map::InformNewBigChange on the Map of System s: a loop closure or a
\* global bundle adjustment has changed the map.
InformNewBigChange(s) ==
    /\ mnBigChangeIdx[s] < MaxBigChange
    /\ mnBigChangeIdx' = [mnBigChangeIdx EXCEPT ![s] = @ + 1]
    /\ UNCHANGED <<staticN, checked, returned>>

\* System::MapChanged on System s. n is a static local of the function:
\* one variable for all the System objects of the process.
MapChanged(s) ==
    LET curn == mnBigChangeIdx[s]
    IN  /\ staticN' = IF staticN < curn THEN curn ELSE staticN
        /\ returned' = [returned EXCEPT ![s] =
                            [value |-> staticN < curn,
                             advanced |-> curn > checked[s],
                             called |-> TRUE]]
        /\ checked' = [checked EXCEPT ![s] = curn]
        /\ UNCHANGED mnBigChangeIdx

\* The Maps change and the Systems are asked; nothing else runs.
MapChangedNext ==
    /\ \E s \in Systems : InformNewBigChange(s) \/ MapChanged(s)
    /\ UNCHANGED <<exited, started, mSensor, hasViewer, bReuseMap, ctor,
                   lastSave, trajVars, flagVars, mutexVars, mTrackingState,
                   mapVars, trk, workerVars, threadVars>>

\* A running system.
MapChangedInit == Init /\ ~exited

MapChangedSpec == MapChangedInit /\ [][MapChangedNext]_vars

\* A constructor call on any arguments.
ConstructorInit ==
    /\ \E sensor \in Sensors, fs \in FileSystems, garbage \in TrackingStates :
          Unconstructed(sensor, fs, garbage)
    /\ NoTrajectory
    /\ NoChecks
    /\ ctor \in CtorCalls
    /\ lastSave = NoSave

ConstructorSpec == ConstructorInit /\ [][Constructor]_vars

(* ------------------------------ claims --------------------------------- *)

\* Event a comes before event b in the log l.
Before(l, a, b) ==
    \E i, j \in 1..Len(l) : i < j /\ l[i] = a /\ l[j] = b

Has(l, e) == \E i \in 1..Len(l) : l[i] = e

\* The threads that are between the first and the last transfer of a Save
\* or of a load: the next step of such a thread reads or writes an object.
Serializing(t) ==
    pc[t] \in {"sv_write_map", "sv_write_index", "rl_read_map", "rl_read_index"}

\* C1: while a Save writes the Map and the index, or a ResetAndLoad reads
\* them, local mapping is stopped and has not been released, whatever the
\* other threads do.
C1_StoppedWhileSerializing ==
    \A t \in Threads : Serializing(t) => isStopped(lm) /\ lm.stopRequested

\* C2: a call that finds the activate flag polls local mapping as stopped
\* before it tells tracking to localize only, both before the frame is
\* forwarded; a call that finds the deactivate flag tells tracking to map
\* again and releases local mapping before the frame is forwarded.
C2_ModeChangeBeforeFrame ==
    \A t \in Threads :
       /\ pc[t] = "tk_inform" =>
             log[t][Len(log[t])] = "Stopped" /\ isStopped(lm)
       /\ pc[t] = "tk_grab" /\ "Activate" \in startFlags[t] =>
             Before(log[t], "Stopped", "OnlyTracking") /\ ~Has(log[t], "Running")
       /\ pc[t] = "tk_grab" /\ "Deactivate" \in startFlags[t] =>
             /\ Before(log[t], "FullMapping", "Release")
             /\ ~trk.mbOnlyTracking
             /\ ~isStopped(lm)

C2_Witness ==
    \E t \in Threads :
       /\ pc[t] = "tk_grab"
       /\ startFlags[t] = {"Activate", "Deactivate"}
       /\ Before(log[t], "Stopped", "OnlyTracking")
       /\ Before(log[t], "OnlyTracking", "FullMapping")

\* What a call does to the tracker for the requests it found, in the order
\* activate, deactivate, reset, reset-and-load.
ExpectedEffects(found) ==
    (IF "Activate" \in found THEN <<"OnlyTracking">> ELSE <<>>)
    \o (IF "Deactivate" \in found THEN <<"FullMapping">> ELSE <<>>)
    \o (IF "Reset" \in found THEN <<"Reset">> ELSE <<>>)
    \o (IF "ResetAndLoad" \in found THEN <<"ResetAfterLoaded">> ELSE <<>>)

IsEffect(e) ==
    e \in {"OnlyTracking", "FullMapping", "Reset", "ResetAfterLoaded"}

\* C3: when the frame is forwarded, every request the call found has been
\* applied, in the order activate, deactivate, reset, reset-and-load.
C3_FixedOrderBeforeFrame ==
    \A t \in Threads :
       pc[t] = "tk_grab" =>
          SelectSeq(log[t], IsEffect) = ExpectedEffects(startFlags[t])

\* C4: when an ingestion call returns, none of the four request flags is
\* still set.
C4_FlagsClearedAtReturn ==
    \A t \in Threads : pc[t] = "tk_ret" => PendingFlags = {}

\* C5: a call that finds both the activate and the deactivate flag forwards
\* its frame with tracking in full-mapping mode, local mapping neither
\* stopped nor asked to stop, and both flags clear.
C5_DeactivateWins ==
    \A t \in Threads :
       pc[t] = "tk_grab" /\ {"Activate", "Deactivate"} \subseteq startFlags[t] =>
          /\ ~trk.mbOnlyTracking
          /\ ~isStopped(lm)
          /\ ~lm.stopRequested
          /\ ~mbActivateLocalizationMode
          /\ ~mbDeactivateLocalizationMode

C5_Witness ==
    \E t \in Threads :
       /\ pc[t] = "tk_grab"
       /\ {"Activate", "Deactivate"} \subseteq startFlags[t]
       /\ Before(log[t], "RequestStop", "Release")
       /\ ~trk.mbOnlyTracking

\* C6: a ResetAndLoad that asked local mapping to stop returns with local
\* mapping, and the viewer when there is one, released.
C6_ReleasedAtReturn ==
    \A t \in Threads :
       pc[t] = "rl_ret" /\ Has(log[t], "RequestStop") =>
          /\ ~isStopped(lm) /\ ~lm.stopRequested
          /\ hasViewer => ~isStopped(viewer) /\ ~viewer.stopRequested

\* C8: a Save that finds the tracking state neither OK nor LOST returns
\* having done nothing; a Save that finds it OK or LOST asks local mapping
\* to stop, polls it as stopped, writes the Map and then the index, and
\* releases local mapping.
C8_SaveSteps ==
    \A t \in Threads :
       pc[t] = "sv_ret" =>
          /\ log[t][1] = "SawNotInitialized" => log[t] = <<"SawNotInitialized">>
          /\ log[t][1] = "SawInitialized" =>
                /\ log[t] = <<"SawInitialized", "RequestStop", "Stopped", "Open",
                              "WriteMap", "WriteIndex", "Release">>
                /\ files[mapfile] =
                      File(<<MapObject(mpMap), IndexObject(mpKeyFrameDatabase)>>)
                /\ ~isStopped(lm)

C8_Witness ==
    \E t \in Threads :
       /\ pc[t] = "sv_ret"
       /\ log[t][1] = "SawInitialized"
       /\ mTrackingState = LOST
       /\ mpMap # EmptyMap

\* C9: when a load has rebuilt the map from a file with keyframes, the
\* next frame id is one more than the largest frame id of the map.
C9_NextIdPastLoaded ==
    \A t \in Threads :
       pc[t] = "rl_release" /\ mpMap # EmptyMap => nNextId = Max(mpMap) + 1

\* C7: Shutdown has asked local mapping and loop closing to finish before
\* it waits for anything; with a viewer it has asked the viewer to finish
\* and seen it finished before it waits for the two workers; and it returns
\* only when local mapping and loop closing are finished and no global
\* bundle adjustment runs.
C7_ShutdownOrder ==
    \A t \in Threads :
       /\ pc[t] \in {"sd_viewer", "sd_wait_viewer", "sd_wait_workers", "sd_ret"} =>
             lm.finishRequested /\ lc.finishRequested
       /\ pc[t] \in {"sd_wait_workers", "sd_ret"} /\ hasViewer =>
             /\ viewer.finishRequested /\ isFinished(viewer)
             /\ Before(log[t], "RequestFinishLoopCloser", "RequestFinishViewer")
             /\ Before(log[t], "RequestFinishViewer", "ViewerFinished")
       /\ pc[t] = "sd_ret" =>
             /\ isFinished(lm) /\ isFinished(lc) /\ ~isRunningGBA
             /\ Before(log[t], "RequestFinishLocalMapper", "RequestFinishLoopCloser")
             /\ hasViewer => Before(log[t], "ViewerFinished", "WorkersFinished")

C7_Witness ==
    \E t \in Threads :
       /\ pc[t] = "sd_ret"
       /\ hasViewer
       /\ isFinished(viewer) /\ isFinished(lm) /\ isFinished(lc)

RECURSIVE Anchor(_)
\* The first keyframe that is not bad, from k up the parents.
Anchor(k) == IF keyframes[k].mbBad THEN Anchor(keyframes[k].mpParent) ELSE k

RECURSIVE Chain(_)
\* Tcp(k) x Tcp(parent of k) x ... over the bad keyframes from k up, the
\* identity when k is not bad.
Chain(k) ==
    IF keyframes[k].mbBad
    THEN Mul(keyframes[k].mTcp, Chain(keyframes[k].mpParent))
    ELSE Identity

\* relativePose x Tcp(K) x ... x pose(A) x Two, inverted, for frame i.
ExpectedPose(i) ==
    LET K == mlpReferences[i]
        lowest == CHOOSE k \in GetAllKeyFrames : \A j \in GetAllKeyFrames : k <= j
    IN  Inverse(Mul(Mul(Mul(mlRelativeFramePoses[i], Chain(K)),
                        keyframes[Anchor(K)].Tcw),
                    Inverse(keyframes[lowest].Tcw)))

\* C10: the export walks from a frame's reference keyframe through exactly
\* the bad keyframes to the first one that is not bad, and every frame not
\* flagged lost is written once, in order, as the inverse of
\* relativePose x Tcp(K) x ... x Tcp(last bad) x pose(A) x Two.
C10_ExportedPose ==
    \A t \in Threads :
       /\ pc[t] = "tj_emit" =>
             pKF = Anchor(mlpReferences[lit]) /\ Trw = Chain(mlpReferences[lit])
       /\ pc[t] \in {"tj_frame", "tj_walk", "tj_emit", "tj_ret"} =>
             \A i \in 1..Len(written) :
                ~mlbLost[written[i].frame] =>
                   written[i].pose = ExpectedPose(written[i].frame)
       /\ pc[t] = "tj_ret" =>
             \A f \in 1..Len(mlbLost) :
                ~mlbLost[f] =>
                   Cardinality({i \in 1..Len(written) : written[i].frame = f}) = 1

\* The chain root -> K1 -> K2 with K1 and K2 bad and a frame on K2 written.
C10_Witness ==
    \E t \in Threads :
       /\ pc[t] = "tj_ret"
       /\ keyframes[1].mbBad /\ keyframes[2].mbBad
       /\ keyframes[2].mpParent = 1
       /\ keyframes[1].mTcp # keyframes[2].mTcp
       /\ \E i \in 1..Len(written) :
             /\ mlpReferences[written[i].frame] = 2
             /\ ~mlbLost[written[i].frame]
             /\ written[i].pose =
                   Inverse(Mul(Mul(Mul(Mul(mlRelativeFramePoses[written[i].frame],
                                           keyframes[2].mTcp),
                                       keyframes[1].mTcp),
                                   keyframes[0].Tcw),
                               Inverse(keyframes[0].Tcw)))

\* The entries of the trajectory log that are not flagged lost.
NotLost == {f \in 1..Len(mlbLost) : ~mlbLost[f]}

\* C11: when an export of either format has gone through the log, it has
\* written as many lines as there are entries not flagged lost, and none
\* of them for an entry flagged lost.
C11_LinesAreFramesNotLost ==
    \A t \in Threads :
       pc[t] = "tj_ret" =>
          /\ Len(written) = Cardinality(NotLost)
          /\ \A i \in 1..Len(written) : written[i].frame \in NotLost

\* The ids of the lines written, in the order written.
WrittenIds == [i \in 1..Len(written) |-> written[i].frame]

\* C12: a camera-trajectory export on a monocular system has returned with
\* no file opened and no line written; a keyframe export, on any sensor,
\* ends with one line for each keyframe of the map that is not bad, by
\* ascending id, and none for a bad one.
C12_RefusedOrByKeyFrame ==
    \A t \in Threads :
       /\ mSensor = "MONOCULAR" /\ format \in Formats =>
             pc[t] = "idle" /\ trajFile = "unopened" /\ written = <<>>
       /\ pc[t] = "kt_ret" =>
             /\ trajFile = "open"
             /\ WrittenIds =
                   SortedById({k \in GetAllKeyFrames : ~keyframes[k].mbBad})

C12_Witness ==
    \E t \in TrackingThreads :
       /\ mSensor = "MONOCULAR"
       /\ pc[t] = "kt_ret"
       /\ keyframes[1].mbBad /\ keyframes[1].inMap
       /\ WrittenIds = <<0, 2>>

\* The path ends in the four characters ".bin".
EndsInBin(path) ==
    /\ Len(path) >= 4
    /\ \A i \in 1..4 : path[Len(path) - 4 + i] = BinSuffix[i]

\* The path ends in the four characters ".txt".
EndsInTxt(path) ==
    /\ Len(path) >= 4
    /\ \A i \in 1..4 : path[Len(path) - 4 + i] = TxtSuffix[i]

\* The vocabulary of this constructor call does not load.
VocabularyFails ==
    \/ ~ctor.vocParses
    \/ ~(EndsInTxt(ctor.strVocFile) \/ EndsInBin(ctor.strVocFile))

\* The map path of this constructor call names a file that loads.
MapLoads ==
    /\ EndsInBin(ctor.strMapFile)
    /\ ctor.readable
    /\ files[ctor.strMapFile].exists

\* C13: when the settings do not open or the vocabulary does not load, the
\* constructor never passes that check and no worker thread is started;
\* past the map step the instance is marked as reusing a map exactly when a
\* map path was supplied and its load succeeded, and then holds the Map and
\* index of the file; in every other case it holds a fresh empty Map and
\* index and the flag is false; the workers are started when it returns.
C13_Construction ==
    /\ ~ctor.settingsOk => ctor.step = "settings" /\ ~started
    /\ VocabularyFails => ctor.step \in {"settings", "vocabulary"} /\ ~started
    /\ ctor.step \in {"workers", "done"} =>
          /\ bReuseMap = MapLoads
          /\ MapLoads =>
                /\ mpMap = files[ctor.strMapFile].objects[1].kfs
                /\ mpKeyFrameDatabase = files[ctor.strMapFile].objects[2].kfs
          /\ ~MapLoads => mpMap = EmptyMap /\ mpKeyFrameDatabase = EmptyMap
    /\ ctor.step = "done" => started /\ ~exited
    /\ started => ctor.step = "done"

\* A constructor given a path without the binary suffix, naming a file that
\* exists, has returned with an empty Map and the workers started.
C13_Witness ==
    /\ ctor.step = "done" /\ started
    /\ ~EndsInBin(ctor.strMapFile)
    /\ ctor.strMapFile \in FilePaths
    /\ files[ctor.strMapFile].exists
    /\ ~bReuseMap /\ mpMap = EmptyMap

\* The fresh instance has finished the map step of its constructor.
FreshMapStep == lastSave.fresh /\ ctor.step \in {"workers", "done"}

\* The round trip for the paths that end in the binary suffix: the
\* constructor of the fresh instance does not fail, its Map has the
\* keyframes of the Map at the Save, and the instance reuses a map.
RoundTripBin ==
    lastSave.fresh /\ EndsInBin(lastSave.strMapFile) =>
       /\ ~exited
       /\ FreshMapStep =>
             /\ bReuseMap
             /\ mpMap = lastSave.mpMap
             /\ MaxLoadedFrameId(mpMap) = MaxLoadedFrameId(lastSave.mpMap)

\* C14: Save writes the Map and then the index and the constructor reads
\* them in that order, so that after a Save(path) in state Ok or Lost the
\* constructor of a fresh instance given the same path does not fail, its
\* Map has the keyframes of the Map at the Save with the same maximum frame
\* id, and the instance is marked as reusing a map.
C14_RoundTrip ==
    lastSave.fresh =>
       /\ ~exited
       /\ FreshMapStep =>
             /\ bReuseMap
             /\ mpMap = lastSave.mpMap
             /\ MaxLoadedFrameId(mpMap) = MaxLoadedFrameId(lastSave.mpMap)

\* While no other System of the process has had a big change, the checks
\* of the first System return true exactly on an advance.
OnlySystemChecks ==
    (\A s \in Systems \ {1} : mnBigChangeIdx[s] = 0) =>
       (returned[1].called => returned[1].value = returned[1].advanced)

\* C15: a MapChanged call returns true exactly when the big-change index of
\* the Map of its System has advanced since the previous MapChanged call on
\* that System: no two calls in a row without a change in between both
\* return true, and the call after an advance returns true.
C15_TrueOnAdvance ==
    \A s \in Systems :
       returned[s].called => returned[s].value = returned[s].advanced

\* A step in which the process exits while every caller thread is outside
\* its call: the exit of an ingestion call of another modality.
WrongModalityExit ==
    /\ ~exited /\ exited'
    /\ \A t \in Threads : pc[t] = "idle"

\* C16: the step in which an ingestion call of another modality than the
\* system's ends the process changes no request flag, no worker (local
\* mapping is neither asked to stop nor released), nothing of the tracking
\* engine, of the map or of the frame counter, and takes no lock.
C16_ExitBeforeEffects ==
    [][WrongModalityExit =>
          UNCHANGED <<flagVars, workerVars, trk, mTrackingState, mapVars,
                      mutexVars>>]_vars

\* The process has exited on an ingestion call of another modality with
\* request flags pending and local mapping stopped.
C16_Witness ==
    /\ started /\ exited
    /\ \A t \in Threads : pc[t] = "idle"
    /\ mbActivateLocalizationMode /\ mbReset
    /\ lm.stopped

\* The thread polls a worker for 'stopped'.
Waiting(t) ==
    pc[t] \in {"tk_wait_stopped", "sv_wait", "rl_wait", "rl_wait_viewer"}

\* C17: under fair scheduling, and with the workers reporting stopped when
\* a stop request is outstanding, a thread that polls for 'stopped' in an
\* ingestion call, a Save or a ResetAndLoad leaves the loop (or the process
\* ends), whatever the other threads do meanwhile.
C17_WaitsTerminate ==
    \A t \in Threads : Waiting(t) ~> (~Waiting(t) \/ exited)

\* C18: whenever tracking is localization-only (an Activate request was
\* applied and no Deactivate request since), local mapping is stopped; a
\* Save or a ResetAndLoad that completes meanwhile leaves it stopped.
C18_StoppedWhileLocalizing ==
    started /\ ~exited /\ trk.mbOnlyTracking => isStopped(lm)

\* The positions inside ActivateLocalizationMode, DeactivateLocalizationMode,
\* Reset and ResetAndLoad.
CommandLabels ==
    {"am_set", "dm_set", "rs_set", "rl_set", "rl_wait", "rl_wait_viewer",
     "rl_open", "rl_read_map", "rl_read_index", "rl_rebuild", "rl_release",
     "rl_ret"}

\* Thread t takes a step of one of the four commands.
CommandStep(t) == pc[t] \in CommandLabels /\ pc'[t] # pc[t]

\* What a command leaves to the next ingestion call.
DeferredState == <<trk, lm, viewer, mpMap, mpKeyFrameDatabase, nNextId>>

\* The steps of ActivateLocalizationMode and DeactivateLocalizationMode
\* change nothing but their flag.
ModeCommandsOnlyRecord ==
    [][\A t \in Threads :
          pc[t] \in {"am_set", "dm_set"} /\ pc'[t] # pc[t] =>
             UNCHANGED DeferredState]_vars

\* C19: no step of ActivateLocalizationMode, DeactivateLocalizationMode,
\* Reset or ResetAndLoad changes the tracking mode or history, the frame-id
\* counters, the stopped status of local mapping or of the viewer, the Map
\* or the index: the command records its request and the next ingestion
\* call applies it.
C19_CommandsOnlyRecord ==
    [][\A t \in Threads : CommandStep(t) => UNCHANGED DeferredState]_vars

\* The next step of thread t in a getter reads a snapshot.
GetterReads(t) == pc[t] = "gs_read"

\* The next step of thread t in an ingestion call writes the snapshots.
IngestionWrites(t) == pc[t] = "tk_snapshot"

\* The next step of thread t in a Save reads the tracking-state snapshot.
SaveReads(t) == pc[t] = "sv_check"

\* The ingestion calls and the getters hold the state lock at their access.
SnapshotLockedOutsideSave ==
    \A t \in Threads :
       started /\ ~exited /\ (GetterReads(t) \/ IngestionWrites(t)) =>
          mMutexState = t

\* C20: a thread about to write the snapshots in an ingestion call, or to
\* read one in GetTrackingState, GetTrackedMapPoints, GetTrackedKeyPointsUn
\* or Save, holds the state lock.
C20_SnapshotUnderStateLock ==
    \A t \in Threads :
       started /\ ~exited /\ (GetterReads(t) \/ IngestionWrites(t) \/ SaveReads(t)) =>
          mMutexState = t

\* The ResetAndLoad of thread t is about to return without having replaced
\* the Map: no path was remembered, or the file could not be opened.
LoadRefused(t) ==
    /\ started /\ ~exited /\ pc[t] = "rl_ret"
    /\ Has(log[t], "NoMapToLoad") \/ Has(log[t], "CannotOpen")

\* C21: a ResetAndLoad that did not replace the Map and the index, because
\* no map path is remembered or because the file cannot be opened, returns
\* with the ResetAndLoad flag clear, so that the next single-image ingestion
\* call applies no post-load reset of the tracker.
C21_NoResetWithoutLoad ==
    \A t \in Threads : LoadRefused(t) => ~mbResetAndLoad

\* The locks of the orchestrator that thread t holds.
Held(t) ==
    {m \in {"mode", "reset", "state"} :
        \/ m = "mode" /\ mMutexMode = t
        \/ m = "reset" /\ mMutexReset = t
        \/ m = "state" /\ mMutexState = t}

\* The positions at which a thread asks for a lock.
LockLabels ==
    {"idle", "tk_mode_lock", "tk_reset_lock", "tk_load_lock", "tk_state_lock"}

\* C22: no thread holds two of the mode lock, the reset lock and the state
\* lock at once, and a thread that asks for one of them holds none: no
\* thread waits for a lock while it keeps another from a waiting thread.
C22_OneLockAtATime ==
    \A t \in Threads :
       /\ Cardinality(Held(t)) <= 1
       /\ pc[t] \in LockLabels => Held(t) = {}

\* One thread holds the reset lock inside a ResetAndLoad while another
\* holds the state lock at the end of an ingestion call.
C22_Witness ==
    \E t, u \in Threads :
       /\ ~exited
       /\ pc[t] = "rl_read_map" /\ Held(t) = {"reset"}
       /\ pc[u] = "tk_ret" /\ Held(u) = {"state"}

\* C23: the file a SaveManual writes is the file at the path it was given,
\* also when that path lacks the binary suffix: no file at another path,
\* such as the path remembered from construction or from an earlier call,
\* is written (and likewise none is loaded by ResetAndLoad).
C23_SaveWritesGivenPath ==
    \A t \in Threads :
       started /\ ~exited /\ pc[t] \in {"sv_write_map", "sv_write_index"} =>
          stream[t] = lastSave.strMapFile

====
